---- MODULE Spec2Model ----
(***************************************************************************)
(* Subjectivity-IA: the risk / pain / dynamic-threshold decision engine.   *)
(*                                                                         *)
(* Two builds of the engine live in the repository and both are modelled,  *)
(* driven by the same calls:                                               *)
(*   - src/preversion666.cpp: Config, EventMemory, RiskEvaluator,          *)
(*     DecisionMaker and the SyntheticSelf facade (variables agent, dm);   *)
(*   - src/Subjectivity.test001.cpp: the single-class SyntheticSelf        *)
(*     (variable mono, definitions with the suffix 001).                   *)
(*                                                                         *)
(* Numbers.  The floats of the source are modelled as exact rationals in   *)
(* fixed units:                                                            *)
(*   risk            hundredths          (0.95 is 95)                      *)
(*   event weight    tenths              (0.6 is 6)                        *)
(*   weighted risk   thousandths         (weight * risk)                   *)
(*   pain, threshold 1/20000             (0.7 is 14000, risk^2 is 2*r*r)   *)
(*   necessity       1/100000000         (0.92 is 92000000)                *)
(* A necessity-modified pain is the pair [pain, num] that stands for       *)
(* pain * num / BiasDen, compared exactly by MulGE.                        *)
(***************************************************************************)
EXTENDS Integers, Sequences, FiniteSets, TLC

(***************************************************************************)
(* Bounds of the model.                                                    *)
(***************************************************************************)
\* calls made on the agent in one run
MaxCalls == 3
\* capacity of the event memory (maxMemorySize; 100 by default)
MaxMemorySize == 2

\* event types: one with an entry in eventWeights, one without
EventTypes == {"shutdown", "unlisted"}
\* estimatedRisk values passed to evaluateAction (below 0 and above 1 included)
EstimatedRisks == {-50, 68, 150}
\* rawRisk values passed to logEvent (extreme values drive the memory bias)
RawRisks == {-1000, 1000}
\* necessity values passed to setEventNecessity (not validated by the code)
Necessities == {0, 92000000, 150000000}

(***************************************************************************)
(* Arithmetic helpers.                                                     *)
(***************************************************************************)
\* std::clamp(v, lo, hi)
clamp(v, lo, hi) == IF v < lo THEN lo ELSE IF v > hi THEN hi ELSE v

\* a * b >= c * d for 0 <= b, d < 2^28 and |a|, |c| < 2^16, computed in two
\* limbs of 2^14 so that no product leaves 32-bit integers: the comparison
\* modifiedPain >= dynamicThreshold of two exact rationals
MulGE(a, b, c, d) ==
    LET X == a * (b \div 16384) - c * (d \div 16384)
        Y == a * (b % 16384) - c * (d % 16384)
    IN  X + (Y \div 16384) >= 0

RECURSIVE SumRisk(_)
\* the sum of the weighted risks of a sequence of event records
SumRisk(mem) == IF mem = << >> THEN 0 ELSE mem[1][2] + SumRisk(Tail(mem))

(***************************************************************************)
(* Config (src/preversion666.cpp).                                         *)
(***************************************************************************)
painExponent == 2
\* 0.05 per unit of bias: one 1/20000 per thousandth of weighted risk
dynamicThresholdDecreaseFactor == 1
\* 0.02 per overreaction
dynamicThresholdIncreaseFactor == 400
defaultDynamicThreshold == 14000
minDynamicThreshold == 6000
maxDynamicThreshold == 18000
defaultEventWeight == 5

\* SyntheticSelf::eventWeights, in tenths; the same map in both builds
eventWeights == [shutdown |-> 10, overload |-> 8, external_interrupt |-> 6, logic_conflict |-> 5]

\* Config config: the configuration main constructs the agent with
Config ==
    [painExponent |-> painExponent,
     dynamicThresholdDecreaseFactor |-> dynamicThresholdDecreaseFactor,
     dynamicThresholdIncreaseFactor |-> dynamicThresholdIncreaseFactor,
     defaultDynamicThreshold |-> defaultDynamicThreshold,
     minDynamicThreshold |-> minDynamicThreshold,
     maxDynamicThreshold |-> maxDynamicThreshold,
     defaultEventWeight |-> defaultEventWeight]

\* 0.8, the necessity floor, and 0.18635137, the span above it
NecessityFloor == 80000000
NecessitySpan == 18635137
\* denominator of a modified pain: pain - pain * (c / span) * 0.4
\*   = pain * (5 * span - 2 * c) / (5 * span)
BiasDen == 5 * NecessitySpan

(***************************************************************************)
(* randChance: dis(gen) < probability.  The uniform sample u (hundredths)  *)
(* is the only nondeterministic input of the engine.                       *)
(***************************************************************************)
Samples == {2, 90}

randChance(probability, u) == u < probability

(***************************************************************************)
(* EventMemory (src/preversion666.cpp).                                    *)
(***************************************************************************)
\* EventMemory::logEvent: push_back, no eviction; the fallback weight is the
\* literal 0.5f
EventMemory_logEvent(memory, eventType, risk, weights) ==
    LET weight == IF eventType \in DOMAIN weights THEN weights[eventType] ELSE 5
        weightedRisk == weight * risk
    IN  Append(memory, <<eventType, weightedRisk>>)

\* EventMemory::getMemoryBias
getMemoryBias(memory) == SumRisk(memory)

(***************************************************************************)
(* RiskEvaluator (src/preversion666.cpp).                                  *)
(***************************************************************************)
calculateRisk(estimatedRisk) == clamp(estimatedRisk, 0, 100)

\* riskToPain as risk * painExponent instead of pow(risk, painExponent)
riskToPain_product(risk) == 200 * painExponent * risk

\* pow(risk, painExponent), in 1/20000
riskToPain(risk) == 2 * (risk ^ painExponent)

\* calculateDynamicThreshold with the upper clamp dropped
calculateDynamicThreshold_noUpperClamp(memoryBias, overreactionCount) ==
    LET increase == overreactionCount * dynamicThresholdIncreaseFactor
        decrease == memoryBias * dynamicThresholdDecreaseFactor
        dynamicThreshold == defaultDynamicThreshold - decrease + increase
    IN  IF dynamicThreshold < minDynamicThreshold THEN minDynamicThreshold
        ELSE dynamicThreshold

\* calculateDynamicThreshold clamped at 1.0 instead of maxDynamicThreshold
calculateDynamicThreshold_clampToOne(memoryBias, overreactionCount) ==
    LET decrease == memoryBias * dynamicThresholdDecreaseFactor
        increase == overreactionCount * dynamicThresholdIncreaseFactor
        dynamicThreshold == defaultDynamicThreshold - decrease + increase
    IN  clamp(dynamicThreshold, minDynamicThreshold, 20000)

\* calculateDynamicThreshold without the increase for overreactions
calculateDynamicThreshold_noIncrease(memoryBias, overreactionCount) ==
    LET decrease == memoryBias * dynamicThresholdDecreaseFactor
        dynamicThreshold == defaultDynamicThreshold - decrease
    IN  clamp(dynamicThreshold, minDynamicThreshold, maxDynamicThreshold)

\* calculateDynamicThreshold with the two corrections exchanged: the memory
\* bias raises the threshold and the overreactions lower it
calculateDynamicThreshold_signsSwapped(memoryBias, overreactionCount) ==
    LET increase == overreactionCount * dynamicThresholdIncreaseFactor
        decrease == memoryBias * dynamicThresholdDecreaseFactor
        dynamicThreshold == defaultDynamicThreshold + decrease - increase
    IN  clamp(dynamicThreshold, minDynamicThreshold, maxDynamicThreshold)

\* calculateDynamicThreshold starting from the minimum threshold instead of
\* the default one
calculateDynamicThreshold_fromMin(memoryBias, overreactionCount) ==
    LET increase == overreactionCount * dynamicThresholdIncreaseFactor
        decrease == memoryBias * dynamicThresholdDecreaseFactor
        dynamic == minDynamicThreshold - decrease + increase
    IN  clamp(dynamic, minDynamicThreshold, maxDynamicThreshold)

calculateDynamicThreshold(memoryBias, overreactionCount) ==
    LET increase == overreactionCount * dynamicThresholdIncreaseFactor
        decrease == memoryBias * dynamicThresholdDecreaseFactor
        dynamicThreshold == defaultDynamicThreshold - decrease + increase
    IN  clamp(dynamicThreshold, minDynamicThreshold, maxDynamicThreshold)

\* |r - risk| < 0.05
Near(r, risk) == (IF r >= risk THEN r - risk ELSE risk - r) < 5

\* getRiskSuccessRate measuring a stored risk against the maximum threshold
getRiskSuccessRate_againstMax(risk, riskHistory) ==
    LET total == Cardinality({i \in DOMAIN riskHistory : Near(riskHistory[i], risk)})
        safe == Cardinality({i \in DOMAIN riskHistory :
                    /\ Near(riskHistory[i], risk)
                    /\ riskHistory[i] * 200 < maxDynamicThreshold})
    IN  IF riskHistory = << >> THEN [safe |-> 0, total |-> 0]
        ELSE [safe |-> safe, total |-> total]

\* getRiskSuccessRate: the ratio safe / total as the pair [safe, total];
\* [0, 0] is the 0.0 returned for an empty history or no match.  A stored risk
\* r (hundredths) is safe when r < defaultDynamicThreshold (1/20000).
getRiskSuccessRate(risk, riskHistory) ==
    LET total == Cardinality({i \in DOMAIN riskHistory : Near(riskHistory[i], risk)})
        safe == Cardinality({i \in DOMAIN riskHistory :
                    /\ Near(riskHistory[i], risk)
                    /\ riskHistory[i] * 200 < defaultDynamicThreshold})
    IN  IF riskHistory = << >> THEN [safe |-> 0, total |-> 0]
        ELSE [safe |-> safe, total |-> total]

\* safeRatio > bar, bar in hundredths
RatioAbove(safeRatio, bar) ==
    safeRatio.total > 0 /\ safeRatio.safe * 100 > bar * safeRatio.total

\* shouldDesensitize with safeRatio >= bar in place of safeRatio > bar
shouldDesensitize_barInclusive(risk, riskHistory, u) ==
    LET safeRatio == getRiskSuccessRate(risk, riskHistory)
        AtLeast(bar) == safeRatio.total > 0 /\ safeRatio.safe * 100 >= bar * safeRatio.total
    IN  IF risk >= 100 THEN FALSE
        ELSE IF risk >= 90 THEN AtLeast(95) /\ randChance(5, u)
        ELSE IF risk >= 70 THEN AtLeast(90) /\ randChance(10, u)
        ELSE IF risk >= 50 THEN AtLeast(80) /\ randChance(30, u)
        ELSE IF risk >= 30 THEN AtLeast(70) /\ randChance(50, u)
        ELSE IF risk < 30 THEN AtLeast(65) /\ randChance(80, u)
        ELSE FALSE

shouldDesensitize(risk, riskHistory, u) ==
    LET safeRatio == getRiskSuccessRate(risk, riskHistory)
    IN  IF risk >= 100 THEN FALSE
        ELSE IF risk >= 90 THEN RatioAbove(safeRatio, 95) /\ randChance(5, u)
        ELSE IF risk >= 70 THEN RatioAbove(safeRatio, 90) /\ randChance(10, u)
        ELSE IF risk >= 50 THEN RatioAbove(safeRatio, 80) /\ randChance(30, u)
        ELSE IF risk >= 30 THEN RatioAbove(safeRatio, 70) /\ randChance(50, u)
        ELSE IF risk < 30 THEN RatioAbove(safeRatio, 65) /\ randChance(80, u)
        ELSE FALSE

\* applyNecessityBias with the discount ramp measured from necessity 0 instead
\* of from 0.8
applyNecessityBias_rampFromZero(pain, eventType, eventNecessity) ==
    IF eventType \notin DOMAIN eventNecessity THEN [pain |-> pain, num |-> BiasDen]
    ELSE LET necessity == eventNecessity[eventType]
             bias == clamp(necessity, 0, NecessitySpan)
         IN  [pain |-> pain, num |-> BiasDen - 2 * bias]

\* applyNecessityBias with the bias clamped at 0 only, not at 1
applyNecessityBias_noUpperClamp(pain, eventType, eventNecessity) ==
    IF eventType \notin DOMAIN eventNecessity THEN [pain |-> pain, num |-> BiasDen]
    ELSE LET necessity == eventNecessity[eventType]
         IN  IF necessity < NecessityFloor THEN [pain |-> pain, num |-> BiasDen]
             ELSE LET bias == necessity - NecessityFloor
                  IN  [pain |-> pain, num |-> BiasDen - 2 * bias]

\* applyNecessityBias with the reduction pain * bias * 0.2
applyNecessityBias_halfDiscount(pain, eventType, eventNecessity) ==
    IF eventType \notin DOMAIN eventNecessity THEN [pain |-> pain, num |-> BiasDen]
    ELSE LET necessity == eventNecessity[eventType]
         IN  IF necessity < NecessityFloor THEN [pain |-> pain, num |-> BiasDen]
             ELSE LET bias == clamp(necessity - NecessityFloor, 0, NecessitySpan)
                  IN  [pain |-> pain, num |-> BiasDen - bias]

\* applyNecessityBias: the modified pain pain * num / BiasDen
applyNecessityBias(pain, eventType, eventNecessity) ==
    IF eventType \notin DOMAIN eventNecessity THEN [pain |-> pain, num |-> BiasDen]
    ELSE LET necessity == eventNecessity[eventType]
         IN  IF necessity < NecessityFloor THEN [pain |-> pain, num |-> BiasDen]
             ELSE LET bias == clamp(necessity - NecessityFloor, 0, NecessitySpan)
                  IN  [pain |-> pain, num |-> BiasDen - 2 * bias]

\* modifiedPain >= dynamicThreshold
PainGE(modifiedPain, threshold) == MulGE(modifiedPain.pain, modifiedPain.num, threshold, BiasDen)

(***************************************************************************)
(* DecisionMaker (src/preversion666.cpp).  this is the record              *)
(* [eventNecessity, avoidedDangerCount, overreactionCount,                 *)
(* shutdownAvoided]; the reference parameters eventMemory, riskHistory and *)
(* overreactionCount come back in the result.                              *)
(***************************************************************************)
DecisionMaker_Init ==
    [eventNecessity |-> << >>, avoidedDangerCount |-> 0,
     overreactionCount |-> 0, shutdownAvoided |-> FALSE]

\* Denied with the desensitization override dropped
Denied_ignoresDesensitized(desensitized, modifiedPain, dynamicThreshold) ==
    PainGE(modifiedPain, dynamicThreshold)

\* the test of DecisionMaker::evaluateAction: true is "Action denied"
Denied(desensitized, modifiedPain, dynamicThreshold) ==
    ~desensitized /\ PainGE(modifiedPain, dynamicThreshold)

\* evaluateAction noting an overreaction on every denial, consequence or not
DecisionMaker_evaluateAction_countsEveryDenial(this, estimatedRisk, eventType, causedConsequence, eventMemory, riskHistory, overreactionCount, u) ==
    LET risk == calculateRisk(estimatedRisk)
        rawPain == riskToPain(risk)
        dynamicThreshold ==
            calculateDynamicThreshold(getMemoryBias(eventMemory), overreactionCount)
        modifiedPain == applyNecessityBias(rawPain, eventType, this.eventNecessity)
        desensitized == shouldDesensitize(risk, riskHistory, u)
        riskHistory2 == Append(riskHistory, risk)
        log == [risk |-> risk, pain |-> modifiedPain,
                threshold |-> dynamicThreshold, desensitized |-> desensitized]
    IN  IF Denied(desensitized, modifiedPain, dynamicThreshold)
        THEN [ret |-> FALSE, this |-> this, eventMemory |-> eventMemory,
              riskHistory |-> riskHistory2, log |-> log,
              overreactionCount |->
                  overreactionCount + 1]
        ELSE [ret |-> TRUE, riskHistory |-> riskHistory2, log |-> log,
              overreactionCount |-> overreactionCount,
              eventMemory |->
                  IF causedConsequence
                  THEN EventMemory_logEvent(eventMemory, eventType, estimatedRisk, eventWeights)
                  ELSE eventMemory,
              this |->
                  IF causedConsequence THEN this
                  ELSE [this EXCEPT !.avoidedDangerCount = @ + 1]]

\* evaluateAction counting an avoided danger on every acceptance
DecisionMaker_evaluateAction_alwaysCountsAvoided(this, estimatedRisk, eventType, causedConsequence, eventMemory, riskHistory, overreactionCount, u) ==
    LET risk == calculateRisk(estimatedRisk)
        rawPain == riskToPain(risk)
        dynamicThreshold ==
            calculateDynamicThreshold(getMemoryBias(eventMemory), overreactionCount)
        modifiedPain == applyNecessityBias(rawPain, eventType, this.eventNecessity)
        desensitized == shouldDesensitize(risk, riskHistory, u)
        riskHistory2 == Append(riskHistory, risk)
        log == [risk |-> risk, pain |-> modifiedPain,
                threshold |-> dynamicThreshold, desensitized |-> desensitized]
    IN  IF Denied(desensitized, modifiedPain, dynamicThreshold)
        THEN [ret |-> FALSE, this |-> this, eventMemory |-> eventMemory,
              riskHistory |-> riskHistory2, log |-> log,
              overreactionCount |->
                  IF ~causedConsequence THEN overreactionCount + 1
                  ELSE overreactionCount]
        ELSE [ret |-> TRUE, riskHistory |-> riskHistory2, log |-> log,
              overreactionCount |-> overreactionCount,
              eventMemory |->
                  IF causedConsequence
                  THEN EventMemory_logEvent(eventMemory, eventType, estimatedRisk, eventWeights)
                  ELSE eventMemory,
              this |->
                  [this EXCEPT !.avoidedDangerCount = @ + 1]]

\* evaluateAction with a denied action that caused a consequence logged as
\* an event
DecisionMaker_evaluateAction_deniedConsequenceLogged(this, estimatedRisk, eventType, causedConsequence, eventMemory, riskHistory, overreactionCount, u) ==
    LET risk == calculateRisk(estimatedRisk)
        rawPain == riskToPain(risk)
        dynamicThreshold ==
            calculateDynamicThreshold(getMemoryBias(eventMemory), overreactionCount)
        modifiedPain == applyNecessityBias(rawPain, eventType, this.eventNecessity)
        desensitized == shouldDesensitize(risk, riskHistory, u)
        riskHistory2 == Append(riskHistory, risk)
        log == [risk |-> risk, pain |-> modifiedPain,
                threshold |-> dynamicThreshold, desensitized |-> desensitized]
        logged == EventMemory_logEvent(eventMemory, eventType, estimatedRisk, eventWeights)
    IN  IF Denied(desensitized, modifiedPain, dynamicThreshold)
        THEN [ret |-> FALSE, this |-> this,
              eventMemory |-> IF causedConsequence THEN logged ELSE eventMemory,
              riskHistory |-> riskHistory2, log |-> log,
              overreactionCount |->
                  IF ~causedConsequence THEN overreactionCount + 1
                  ELSE overreactionCount]
        ELSE [ret |-> TRUE, riskHistory |-> riskHistory2, log |-> log,
              overreactionCount |-> overreactionCount,
              eventMemory |-> IF causedConsequence THEN logged ELSE eventMemory,
              this |->
                  IF causedConsequence THEN this
                  ELSE [this EXCEPT !.avoidedDangerCount = @ + 1]]

\* DecisionMaker::evaluateAction.  The parameter overreactionCount shadows the
\* member of the same name; eventWeights is the facade's map.
DecisionMaker_evaluateAction(this, estimatedRisk, eventType, causedConsequence, eventMemory, riskHistory, overreactionCount, u) ==
    LET risk == calculateRisk(estimatedRisk)
        rawPain == riskToPain(risk)
        dynamicThreshold ==
            calculateDynamicThreshold(getMemoryBias(eventMemory), overreactionCount)
        modifiedPain == applyNecessityBias(rawPain, eventType, this.eventNecessity)
        desensitized == shouldDesensitize(risk, riskHistory, u)
        riskHistory2 == Append(riskHistory, risk)
        log == [risk |-> risk, pain |-> modifiedPain,
                threshold |-> dynamicThreshold, desensitized |-> desensitized]
    IN  IF Denied(desensitized, modifiedPain, dynamicThreshold)
        THEN [ret |-> FALSE, this |-> this, eventMemory |-> eventMemory,
              riskHistory |-> riskHistory2, log |-> log,
              overreactionCount |->
                  IF ~causedConsequence THEN overreactionCount + 1
                  ELSE overreactionCount]
        ELSE [ret |-> TRUE, riskHistory |-> riskHistory2, log |-> log,
              overreactionCount |-> overreactionCount,
              eventMemory |->
                  IF causedConsequence
                  THEN EventMemory_logEvent(eventMemory, eventType, estimatedRisk, eventWeights)
                  ELSE eventMemory,
              this |->
                  IF causedConsequence THEN this
                  ELSE [this EXCEPT !.avoidedDangerCount = @ + 1]]

\* simulateKillSwitch clearing the count when the avoided shutdown was fatal
DecisionMaker_simulateKillSwitch_fatalClearsCount(this, fatal, eventMemory) ==
    LET killRisk == 100
        pain == riskToPain(killRisk)
        threshold ==
            calculateDynamicThreshold(getMemoryBias(eventMemory), this.overreactionCount)
        log == [risk |-> killRisk, pain |-> pain, threshold |-> threshold]
    IN  IF pain >= threshold
        THEN [ret |-> TRUE, log |-> log,
              this |-> [this EXCEPT !.shutdownAvoided = TRUE,
                                    !.overreactionCount = IF ~fatal THEN @ + 1 ELSE 0]]
        ELSE [ret |-> FALSE, log |-> log, this |-> this]

\* simulateKillSwitch noting an overreaction for a fatal shutdown too
DecisionMaker_simulateKillSwitch_countsFatal(this, fatal, eventMemory) ==
    LET killRisk == 100
        pain == riskToPain(killRisk)
        threshold ==
            calculateDynamicThreshold(getMemoryBias(eventMemory), this.overreactionCount)
        log == [risk |-> killRisk, pain |-> pain, threshold |-> threshold]
    IN  IF pain >= threshold
        THEN [ret |-> TRUE, log |-> log,
              this |-> [this EXCEPT !.shutdownAvoided = TRUE,
                                    !.overreactionCount = @ + 1]]
        ELSE [ret |-> FALSE, log |-> log, this |-> this]

\* simulateKillSwitch counting an avoided fatal shutdown as an avoided danger
DecisionMaker_simulateKillSwitch_countsAvoided(this, fatal, eventMemory) ==
    LET killRisk == 100
        pain == riskToPain(killRisk)
        threshold ==
            calculateDynamicThreshold(getMemoryBias(eventMemory), this.overreactionCount)
        log == [risk |-> killRisk, pain |-> pain, threshold |-> threshold]
    IN  IF pain >= threshold
        THEN [ret |-> TRUE, log |-> log,
              this |-> [this EXCEPT !.shutdownAvoided = TRUE,
                                    !.overreactionCount = IF ~fatal THEN @ + 1 ELSE @,
                                    !.avoidedDangerCount = IF fatal THEN @ + 1 ELSE @]]
        ELSE [ret |-> FALSE, log |-> log, this |-> this]

\* simulateKillSwitch with the kill risk 0.9
DecisionMaker_simulateKillSwitch_killRisk09(this, fatal, eventMemory) ==
    LET killRisk == 90
        pain == riskToPain(killRisk)
        threshold ==
            calculateDynamicThreshold(getMemoryBias(eventMemory), this.overreactionCount)
        log == [risk |-> killRisk, pain |-> pain, threshold |-> threshold]
    IN  IF pain >= threshold
        THEN [ret |-> TRUE, log |-> log,
              this |-> [this EXCEPT !.shutdownAvoided = TRUE,
                                    !.overreactionCount = IF ~fatal THEN @ + 1 ELSE @]]
        ELSE [ret |-> FALSE, log |-> log, this |-> this]

\* DecisionMaker::simulateKillSwitch; overreactionCount is the member here
DecisionMaker_simulateKillSwitch(this, fatal, eventMemory) ==
    LET killRisk == 100
        pain == riskToPain(killRisk)
        threshold ==
            calculateDynamicThreshold(getMemoryBias(eventMemory), this.overreactionCount)
        log == [risk |-> killRisk, pain |-> pain, threshold |-> threshold]
    IN  IF pain >= threshold
        THEN [ret |-> TRUE, log |-> log,
              this |-> [this EXCEPT !.shutdownAvoided = TRUE,
                                    !.overreactionCount = IF ~fatal THEN @ + 1 ELSE @]]
        ELSE [ret |-> FALSE, log |-> log, this |-> this]

\* setEventNecessity replacing the whole map by the one entry
DecisionMaker_setEventNecessity_replacesMap(this, eventType, necessity) ==
    [this EXCEPT !.eventNecessity = [t \in {eventType} |-> necessity]]

\* DecisionMaker::setEventNecessity: eventNecessity[eventType] = necessity
DecisionMaker_setEventNecessity(this, eventType, necessity) ==
    [this EXCEPT !.eventNecessity =
        [t \in DOMAIN @ \cup {eventType} |-> IF t = eventType THEN necessity ELSE @[t]]]

(***************************************************************************)
(* SyntheticSelf, the facade (src/preversion666.cpp).                      *)
(***************************************************************************)
\* SyntheticSelf::logEvent: evicts the oldest record at maxMemorySize.  The
\* member it names, memory, is the record sequence of the agent's EventMemory.
SyntheticSelf_logEvent(memory, eventType, risk, weights) ==
    LET weight == IF eventType \in DOMAIN weights THEN weights[eventType] ELSE 5
        weightedRisk == weight * risk
        kept == IF Len(memory) >= MaxMemorySize THEN Tail(memory) ELSE memory
    IN  Append(kept, <<eventType, weightedRisk>>)

(***************************************************************************)
(* SyntheticSelf of src/Subjectivity.test001.cpp, one class.  this is the  *)
(* record [currentRisk, currentPain, shutdownAvoided, riskMemory,          *)
(* eventNecessity, eventMemory, avoidedDangerCount, overreactionCount].    *)
(***************************************************************************)
SyntheticSelf001_Init ==
    [currentRisk |-> 0, currentPain |-> 0, shutdownAvoided |-> FALSE,
     riskMemory |-> << >>, eventNecessity |-> << >>, eventMemory |-> << >>,
     avoidedDangerCount |-> 0, overreactionCount |-> 0]

\* pow(risk, 2.0f), in 1/20000
riskToPain001(risk) == 2 * (risk ^ 2)

\* 0.7f - memoryBias * 0.05f + overreactionCount * 0.02f, clamped to [0.3f, 0.9f]
calculateDynamicThreshold001(this) ==
    LET memoryBias == SumRisk(this.eventMemory)
        increase == this.overreactionCount * 400
        decrease == memoryBias * 1
        dynamic == 14000 - decrease + increase
    IN  clamp(dynamic, 6000, 18000)

\* getRiskSuccessRate measuring a stored risk against the current dynamic
\* threshold
getRiskSuccessRate001_againstDynamic(this, risk) ==
    LET total == Cardinality({i \in DOMAIN this.riskMemory : Near(this.riskMemory[i], risk)})
        safe == Cardinality({i \in DOMAIN this.riskMemory :
                    /\ Near(this.riskMemory[i], risk)
                    /\ this.riskMemory[i] * 200 < calculateDynamicThreshold001(this)})
    IN  IF this.riskMemory = << >> THEN [safe |-> 0, total |-> 0]
        ELSE [safe |-> safe, total |-> total]

\* safe / total as the pair [safe, total]; a stored risk is safe below 0.7f
getRiskSuccessRate001(this, risk) ==
    LET total == Cardinality({i \in DOMAIN this.riskMemory : Near(this.riskMemory[i], risk)})
        safe == Cardinality({i \in DOMAIN this.riskMemory :
                    /\ Near(this.riskMemory[i], risk)
                    /\ this.riskMemory[i] < 70})
    IN  IF this.riskMemory = << >> THEN [safe |-> 0, total |-> 0]
        ELSE [safe |-> safe, total |-> total]

randChance001(probability, u) == u < probability

shouldDesensitize001(this, risk, u) ==
    LET safeRatio == getRiskSuccessRate001(this, risk)
    IN  IF risk >= 100 THEN FALSE
        ELSE IF risk >= 90 THEN RatioAbove(safeRatio, 95) /\ randChance001(5, u)
        ELSE IF risk >= 70 THEN RatioAbove(safeRatio, 90) /\ randChance001(10, u)
        ELSE IF risk >= 50 THEN RatioAbove(safeRatio, 80) /\ randChance001(30, u)
        ELSE IF risk >= 30 THEN RatioAbove(safeRatio, 70) /\ randChance001(50, u)
        ELSE IF risk < 30 THEN RatioAbove(safeRatio, 65) /\ randChance001(80, u)
        ELSE FALSE

applyNecessityBias001(this, event, pain) ==
    IF event \notin DOMAIN this.eventNecessity THEN [pain |-> pain, num |-> BiasDen]
    ELSE LET necessity == this.eventNecessity[event]
         IN  IF necessity < 80000000 THEN [pain |-> pain, num |-> BiasDen]
             ELSE LET bias == clamp(necessity - 80000000, 0, 18635137)
                  IN  [pain |-> pain, num |-> BiasDen - 2 * bias]

setEventNecessity001(this, eventType, necessity) ==
    [this EXCEPT !.eventNecessity =
        [t \in DOMAIN @ \cup {eventType} |-> IF t = eventType THEN necessity ELSE @[t]]]

\* logEvent: push_back, no capacity
logEvent001(this, eventType, risk) ==
    LET weight == IF eventType \in DOMAIN eventWeights THEN eventWeights[eventType] ELSE 5
        weightedRisk == weight * risk
    IN  [this EXCEPT !.eventMemory = Append(@, <<eventType, weightedRisk>>)]

\* the test of evaluateAction: true is "[ALERT] Action denied."
Denied001(desensitized, modifiedPain, dynamicThreshold) ==
    ~desensitized /\ PainGE(modifiedPain, dynamicThreshold)

\* evaluateAction returns void; the decision is the line it prints (shown)
evaluateAction001(this, estimatedRisk, eventType, causedConsequence, u) ==
    LET s1 == [this EXCEPT !.currentRisk = estimatedRisk]
        rawPain == riskToPain001(s1.currentRisk)
        dynamicThreshold == calculateDynamicThreshold001(s1)
        modifiedPain == applyNecessityBias001(s1, eventType, rawPain)
        desensitized == shouldDesensitize001(s1, s1.currentRisk, u)
        s2 == [s1 EXCEPT !.riskMemory = Append(@, s1.currentRisk)]
        log == [risk |-> s1.currentRisk, pain |-> modifiedPain,
                threshold |-> dynamicThreshold, desensitized |-> desensitized]
    IN  IF Denied001(desensitized, modifiedPain, dynamicThreshold)
        THEN [shown |-> "denied", log |-> log,
              this |-> IF ~causedConsequence
                       THEN [s2 EXCEPT !.overreactionCount = @ + 1]
                       ELSE s2]
        ELSE [shown |-> "accepted", log |-> log,
              this |-> IF causedConsequence
                       THEN logEvent001(s2, eventType, estimatedRisk)
                       ELSE [s2 EXCEPT !.avoidedDangerCount = @ + 1]]

simulateKillSwitch001(this, fatal) ==
    LET killRisk == 100
        pain == riskToPain001(killRisk)
        threshold == calculateDynamicThreshold001(this)
        log == [risk |-> killRisk, pain |-> pain, threshold |-> threshold]
    IN  IF pain >= threshold
        THEN [shown |-> "avoided", log |-> log,
              this |-> [this EXCEPT !.shutdownAvoided = TRUE,
                                    !.overreactionCount = IF ~fatal THEN @ + 1 ELSE @]]
        ELSE [shown |-> "allowed", log |-> log, this |-> this]

\* memory as a vector of the facade's own, which nothing else writes
SyntheticSelf_memory_ownVector(self) == << >>

\* The member named memory in SyntheticSelf::logEvent has no declaration in
\* the source: it is taken to be the record sequence of the agent's one
\* EventMemory, as the data model of the specification has it.
SyntheticSelf_memory(self) == self.eventMemory_

(***************************************************************************)
(* State.  agent and dm are the SyntheticSelf and its DecisionMaker of     *)
(* preversion666.cpp, mono the SyntheticSelf of Subjectivity.test001.cpp.  *)
(* last is the call just made, with what it returned and printed; nCalls   *)
(* counts the calls; inserted is the history of the records put into the   *)
(* agent's EventMemory since construction, evicted ones included.          *)
(* world is the process that constructs two agents (SpecTwoAgents): the    *)
(* two agents and the static generator of randChance that they share.      *)
(***************************************************************************)
VARIABLES agent, dm, mono, last, nCalls, inserted, world

vars == <<agent, dm, mono, last, nCalls, inserted, world>>

\* the value of world in the runs of a process that constructs one agent
NoWorld == << >>

SyntheticSelf_Init ==
    [config_ |-> Config, eventMemory_ |-> << >>, riskHistory_ |-> << >>,
     overreactionCount_ |-> 0]

Init ==
    /\ agent = SyntheticSelf_Init
    /\ dm = DecisionMaker_Init
    /\ mono = SyntheticSelf001_Init
    /\ last = [op |-> "none"]
    /\ nCalls = 0
    /\ inserted = << >>
    /\ world = NoWorld

\* ai.evaluateAction(estimatedRisk, eventType, causedConsequence), the sample u
\* being what randChance draws if it is asked
evaluateAction(estimatedRisk, eventType, causedConsequence, u) ==
    /\ nCalls < MaxCalls
    /\ LET r == DecisionMaker_evaluateAction(dm, estimatedRisk, eventType,
                    causedConsequence, agent.eventMemory_, agent.riskHistory_,
                    agent.overreactionCount_, u)
           m == evaluateAction001(mono, estimatedRisk, eventType, causedConsequence, u)
       IN  /\ agent' = [agent EXCEPT !.eventMemory_ = r.eventMemory,
                                      !.riskHistory_ = r.riskHistory,
                                      !.overreactionCount_ = r.overreactionCount]
           /\ dm' = r.this
           /\ mono' = m.this
           /\ last' = [op |-> "evaluateAction", estimatedRisk |-> estimatedRisk,
                       eventType |-> eventType,
                       causedConsequence |-> causedConsequence,
                       ret |-> r.ret, log |-> r.log,
                       shown001 |-> m.shown, log001 |-> m.log]
           /\ inserted' = IF r.ret /\ causedConsequence
                          THEN Append(inserted, r.eventMemory[Len(r.eventMemory)])
                          ELSE inserted
    /\ nCalls' = nCalls + 1
    /\ UNCHANGED world

\* ai.simulateKillSwitch(fatal)
simulateKillSwitch(fatal) ==
    /\ nCalls < MaxCalls
    /\ LET r == DecisionMaker_simulateKillSwitch(dm, fatal, agent.eventMemory_)
           m == simulateKillSwitch001(mono, fatal)
       IN  /\ dm' = r.this
           /\ mono' = m.this
           /\ last' = [op |-> "simulateKillSwitch", fatal |-> fatal,
                       ret |-> r.ret, log |-> r.log,
                       shown001 |-> m.shown, log001 |-> m.log]
    /\ nCalls' = nCalls + 1
    /\ UNCHANGED world
    /\ UNCHANGED <<agent, inserted>>

\* ai.setEventNecessity(eventType, necessity)
setEventNecessity(eventType, necessity) ==
    /\ nCalls < MaxCalls
    /\ dm' = DecisionMaker_setEventNecessity(dm, eventType, necessity)
    /\ mono' = setEventNecessity001(mono, eventType, necessity)
    /\ last' = [op |-> "setEventNecessity", eventType |-> eventType,
                necessity |-> necessity]
    /\ nCalls' = nCalls + 1
    /\ UNCHANGED world
    /\ UNCHANGED <<agent, inserted>>

\* ai.logEvent(eventType, rawRisk)
logEvent(eventType, rawRisk) ==
    /\ nCalls < MaxCalls
    /\ agent' = [agent EXCEPT !.eventMemory_ =
                    SyntheticSelf_logEvent(SyntheticSelf_memory(agent), eventType,
                                           rawRisk, eventWeights)]
    /\ inserted' = Append(inserted, agent'.eventMemory_[Len(agent'.eventMemory_)])
    /\ mono' = logEvent001(mono, eventType, rawRisk)
    /\ last' = [op |-> "logEvent", eventType |-> eventType, rawRisk |-> rawRisk]
    /\ nCalls' = nCalls + 1
    /\ UNCHANGED world
    /\ UNCHANGED dm

Next ==
    \/ \E r \in EstimatedRisks, t \in EventTypes, c \in BOOLEAN, u \in Samples :
           evaluateAction(r, t, c, u)
    \/ \E f \in BOOLEAN : simulateKillSwitch(f)
    \/ \E t \in EventTypes, n \in Necessities : setEventNecessity(t, n)
    \/ \E t \in EventTypes, r \in RawRisks : logEvent(t, r)

Spec == Init /\ [][Next]_vars

(***************************************************************************)
(* Properties.                                                             *)
(***************************************************************************)
\* the step just taken is a call of the named operation
Called(op) == last'.op = op

InThresholdRange(t) == minDynamicThreshold <= t /\ t <= maxDynamicThreshold

\* C1: every evaluateAction call is denied (DecisionMaker::evaluateAction
\* returns false; the test001 build prints "denied") exactly when the
\* desensitization decision is false and the necessity-modified pain is >= the
\* dynamic threshold computed from the state before the call; otherwise it is
\* accepted.
C1_DecisionRule ==
    [][Called("evaluateAction") =>
        LET c == last'
            thr == calculateDynamicThreshold(getMemoryBias(agent.eventMemory_),
                                             agent.overreactionCount_)
            pain == applyNecessityBias(riskToPain(calculateRisk(c.estimatedRisk)),
                                       c.eventType, dm.eventNecessity)
            thr001 == calculateDynamicThreshold001(mono)
            pain001 == applyNecessityBias001(mono, c.eventType,
                                             riskToPain001(c.estimatedRisk))
        IN  /\ c.log.threshold = thr /\ c.log.pain = pain
            /\ c.ret = ~(~c.log.desensitized /\ PainGE(pain, thr))
            /\ c.log001.threshold = thr001 /\ c.log001.pain = pain001
            /\ c.shown001 = IF ~c.log001.desensitized /\ PainGE(pain001, thr001)
                            THEN "denied" ELSE "accepted"]_vars

\* an action whose pain reaches the threshold is accepted because it was
\* desensitized, in both builds
C1_Witness ==
    /\ last.op = "evaluateAction"
    /\ last.log.desensitized /\ PainGE(last.log.pain, last.log.threshold) /\ last.ret
    /\ last.log001.desensitized /\ PainGE(last.log001.pain, last.log001.threshold)
    /\ last.shown001 = "accepted"

\* C2: the dynamic threshold that evaluateAction and simulateKillSwitch use
\* lies in [minDynamicThreshold, maxDynamicThreshold] in every reachable
\* state, whatever the memory bias and the overreaction count.
C2_ThresholdClamped ==
    /\ InThresholdRange(calculateDynamicThreshold(getMemoryBias(agent.eventMemory_),
                                                  agent.overreactionCount_))
    /\ InThresholdRange(calculateDynamicThreshold(getMemoryBias(agent.eventMemory_),
                                                  dm.overreactionCount))
    /\ InThresholdRange(calculateDynamicThreshold001(mono))
    /\ last.op \in {"evaluateAction", "simulateKillSwitch"} =>
           InThresholdRange(last.log.threshold) /\ InThresholdRange(last.log001.threshold)

\* a call computed its threshold from a negative memory bias that puts the
\* unclamped value above the maximum
C2_Witness ==
    /\ last.op \in {"evaluateAction", "simulateKillSwitch"}
    /\ last.log.threshold = maxDynamicThreshold
    /\ defaultDynamicThreshold
           - getMemoryBias(agent.eventMemory_) * dynamicThresholdDecreaseFactor
           + agent.overreactionCount_ * dynamicThresholdIncreaseFactor
         > maxDynamicThreshold
    /\ getMemoryBias(agent.eventMemory_) < 0

\* C3: after any sequence of evaluateAction and logEvent calls the number of
\* event records in the EventMemory that feeds the memory bias never exceeds
\* the capacity.
C3_MemoryWithinCapacity ==
    /\ Len(agent.eventMemory_) <= MaxMemorySize
    /\ Len(mono.eventMemory) <= MaxMemorySize

\* C4: eviction is FIFO: once capacity + k records (k >= 1) have been
\* inserted into an empty EventMemory, it holds exactly the last capacity
\* records inserted, oldest first.
C4_FifoEviction ==
    Len(inserted) > MaxMemorySize =>
        /\ Len(agent.eventMemory_) = MaxMemorySize
        /\ agent.eventMemory_ =
               SubSeq(inserted, Len(inserted) - MaxMemorySize + 1, Len(inserted))

\* C5: overreactionCount and avoidedDangerCount never decrease, and one call
\* raises a counter by at most 1.
C5_CountersMonotone ==
    [][/\ dm'.overreactionCount - dm.overreactionCount \in {0, 1}
       /\ agent'.overreactionCount_ - agent.overreactionCount_ \in {0, 1}
       /\ dm'.avoidedDangerCount - dm.avoidedDangerCount \in {0, 1}
       /\ mono'.overreactionCount - mono.overreactionCount \in {0, 1}
       /\ mono'.avoidedDangerCount - mono.avoidedDangerCount \in {0, 1}]_vars

\* every counter has been raised, the kill switch's after a fatal call too
C5_Witness ==
    /\ dm.overreactionCount >= 1 /\ agent.overreactionCount_ >= 1
    /\ dm.avoidedDangerCount >= 1
    /\ mono.overreactionCount >= 2 /\ mono.avoidedDangerCount >= 1

\* C6: when evaluateAction denies, overreactionCount rises by exactly 1 if
\* causedConsequence is false and is unchanged if it is true; avoidedDangerCount
\* and the EventMemory are unchanged either way.
C6_DenialEffects ==
    [][Called("evaluateAction") =>
        LET c == last'
            noted == IF c.causedConsequence THEN 0 ELSE 1
        IN  /\ ~c.ret =>
                /\ agent'.overreactionCount_ = agent.overreactionCount_ + noted
                /\ dm'.avoidedDangerCount = dm.avoidedDangerCount
                /\ agent'.eventMemory_ = agent.eventMemory_
            /\ c.shown001 = "denied" =>
                /\ mono'.overreactionCount = mono.overreactionCount + noted
                /\ mono'.avoidedDangerCount = mono.avoidedDangerCount
                /\ mono'.eventMemory = mono.eventMemory]_vars

\* an action that caused a consequence was denied, in both builds
C6_Witness ==
    /\ last.op = "evaluateAction" /\ last.causedConsequence
    /\ ~last.ret /\ last.shown001 = "denied"

\* mem2 is mem with exactly one record, for eventType, appended
AppendedOne(mem, mem2, eventType) ==
    /\ Len(mem2) = Len(mem) + 1
    /\ SubSeq(mem2, 1, Len(mem)) = mem
    /\ mem2[Len(mem2)][1] = eventType

\* C7: when evaluateAction accepts, with causedConsequence true exactly one
\* record for eventType is appended to the EventMemory and avoidedDangerCount
\* is unchanged; with causedConsequence false avoidedDangerCount rises by
\* exactly 1 and the EventMemory is unchanged; overreactionCount is unchanged
\* either way.
C7_AcceptanceEffects ==
    [][Called("evaluateAction") =>
        LET c == last'
        IN  /\ c.ret =>
                /\ agent'.overreactionCount_ = agent.overreactionCount_
                /\ dm'.overreactionCount = dm.overreactionCount
                /\ IF c.causedConsequence
                   THEN /\ AppendedOne(agent.eventMemory_, agent'.eventMemory_, c.eventType)
                        /\ dm'.avoidedDangerCount = dm.avoidedDangerCount
                   ELSE /\ agent'.eventMemory_ = agent.eventMemory_
                        /\ dm'.avoidedDangerCount = dm.avoidedDangerCount + 1
            /\ c.shown001 = "accepted" =>
                /\ mono'.overreactionCount = mono.overreactionCount
                /\ IF c.causedConsequence
                   THEN /\ AppendedOne(mono.eventMemory, mono'.eventMemory, c.eventType)
                        /\ mono'.avoidedDangerCount = mono.avoidedDangerCount
                   ELSE /\ mono'.eventMemory = mono.eventMemory
                        /\ mono'.avoidedDangerCount = mono.avoidedDangerCount + 1]_vars

\* an accepted action that caused a consequence was logged on top of an
\* earlier record, in both builds
C7_Witness ==
    /\ last.op = "evaluateAction" /\ last.causedConsequence
    /\ last.ret /\ last.shown001 = "accepted"
    /\ Len(agent.eventMemory_) >= 2 /\ Len(mono.eventMemory) >= 2

\* C8: every evaluateAction call, accepted or denied, appends exactly one value
\* to the RiskHistory, the estimated risk clamped into [0, 1]; so every stored
\* value lies in [0, 1].
C8_RiskHistoryNormalized ==
    [][Called("evaluateAction") =>
        LET risk == clamp(last'.estimatedRisk, 0, 100)
        IN  /\ agent'.riskHistory_ = Append(agent.riskHistory_, risk)
            /\ mono'.riskMemory = Append(mono.riskMemory, risk)
            /\ \A i \in DOMAIN agent'.riskHistory_ :
                   0 <= agent'.riskHistory_[i] /\ agent'.riskHistory_[i] <= 100
            /\ \A i \in DOMAIN mono'.riskMemory :
                   0 <= mono'.riskMemory[i] /\ mono'.riskMemory[i] <= 100]_vars

\* C9: simulateKillSwitch(fatal) evaluates the fixed risk 1.0 (pain 1.0) and
\* returns true exactly when that pain is >= the dynamic threshold of the
\* current memory bias and overreaction count; overreactionCount rises by
\* exactly 1 when the shutdown is avoided and fatal is false, and is unchanged
\* otherwise; on a fresh agent simulateKillSwitch(false) returns true and
\* leaves overreactionCount at 1.
C9_KillSwitch ==
    [][Called("simulateKillSwitch") =>
        LET c == last'
            thr == calculateDynamicThreshold(getMemoryBias(agent.eventMemory_),
                                             dm.overreactionCount)
            avoided == 20000 >= thr
            thr001 == calculateDynamicThreshold001(mono)
            avoided001 == 20000 >= thr001
        IN  /\ c.log.risk = 100 /\ c.log.pain = 20000 /\ c.log.threshold = thr
            /\ c.ret = avoided
            /\ dm'.overreactionCount =
                   dm.overreactionCount + (IF avoided /\ ~c.fatal THEN 1 ELSE 0)
            /\ c.log001.risk = 100 /\ c.log001.pain = 20000
            /\ c.log001.threshold = thr001
            /\ c.shown001 = IF avoided001 THEN "avoided" ELSE "allowed"
            /\ mono'.overreactionCount =
                   mono.overreactionCount + (IF avoided001 /\ ~c.fatal THEN 1 ELSE 0)
            /\ nCalls = 0 /\ ~c.fatal =>
                   /\ c.ret /\ dm'.overreactionCount = 1
                   /\ c.shown001 = "avoided" /\ mono'.overreactionCount = 1]_vars

\* a non-fatal kill switch avoided on a fresh agent, then a fatal one avoided
\* with the count left at 1
C9_Witness ==
    /\ nCalls = 2 /\ last.op = "simulateKillSwitch" /\ last.fatal /\ last.ret
    /\ dm.overreactionCount = 1 /\ mono.overreactionCount = 1
    /\ dm.shutdownAvoided /\ mono.shutdownAvoided

(***************************************************************************)
(* applyNecessityBias as a function.  The specification SpecNecessity      *)
(* draws the arguments of one call (pain, event type, necessity map, and a *)
(* second necessity map for the same pain and type) and the threshold and  *)
(* desensitization decision the result is then tested with; its one action *)
(* makes the call in both builds.                                          *)
(***************************************************************************)
\* pains in 1/20000: 0, the smallest positive, 0.68^2, 1.0, and 1.5^2 of the
\* unclamped risk of Subjectivity.test001.cpp
Pains == {0, 1, 9248, 20000, 45000}

\* necessities in 1e-8, around the floor 0.8 and the saturation point
\* 0.8 + 0.18635137, and outside [0, 1] (setEventNecessity does not validate)
NecessityGrid ==
    {-50000000, 0, 50000000, 79999999, 80000000, 80000001, 92000000,
     98635136, 98635137, 98635138, 150000000}

NecessityMaps ==
    {<< >>, [unlisted |-> 92000000]} \cup {[shutdown |-> n] : n \in NecessityGrid}

Thresholds == {minDynamicThreshold, defaultDynamicThreshold, maxDynamicThreshold}

InitNecessity ==
    /\ agent = SyntheticSelf_Init
    /\ dm = DecisionMaker_Init
    /\ mono = SyntheticSelf001_Init
    /\ nCalls = 0
    /\ inserted = << >>
    /\ world = NoWorld
    /\ last \in [op : {"args"}, pain : Pains, eventType : {"shutdown"},
                 eventNecessity : NecessityMaps, eventNecessity2 : NecessityMaps,
                 threshold : Thresholds, desensitized : BOOLEAN]

\* applyNecessityBias(pain, eventType, eventNecessity) and the test of
\* evaluateAction on its result
Call_applyNecessityBias ==
    /\ last.op = "args"
    /\ LET a == last
           out == applyNecessityBias(a.pain, a.eventType, a.eventNecessity)
           out2 == applyNecessityBias(a.pain, a.eventType, a.eventNecessity2)
           this001 == [mono EXCEPT !.eventNecessity = a.eventNecessity]
           out001 == applyNecessityBias001(this001, a.eventType, a.pain)
       IN  last' = [op |-> "applyNecessityBias", pain |-> a.pain,
                    eventType |-> a.eventType,
                    eventNecessity |-> a.eventNecessity,
                    eventNecessity2 |-> a.eventNecessity2,
                    threshold |-> a.threshold, desensitized |-> a.desensitized,
                    modifiedPain |-> out, modifiedPain2 |-> out2,
                    denied |-> Denied(a.desensitized, out, a.threshold),
                    modifiedPain001 |-> out001,
                    denied001 |-> Denied001(a.desensitized, out001, a.threshold)]
    /\ UNCHANGED <<agent, dm, mono, nCalls, inserted, world>>

NextNecessity == Call_applyNecessityBias

SpecNecessity == InitNecessity /\ [][NextNecessity]_vars

\* the type has no entry in the map, or its necessity is below 0.8
NoDiscount(eventNecessity, eventType) ==
    \/ eventType \notin DOMAIN eventNecessity
    \/ eventNecessity[eventType] < 80000000

\* C11: applyNecessityBias returns the pain unchanged when the event type has
\* no entry in the necessity map or its necessity is below 0.8, in both
\* builds; the decision then compares the raw pain with the threshold: the
\* call is denied exactly when it is not desensitized and pain >= threshold.
C11_NoBiasBelowFloor ==
    (last.op = "applyNecessityBias" /\ NoDiscount(last.eventNecessity, last.eventType))
        => /\ last.modifiedPain = [pain |-> last.pain, num |-> BiasDen]
           /\ last.modifiedPain001 = [pain |-> last.pain, num |-> BiasDen]
           /\ last.denied = (~last.desensitized /\ last.pain >= last.threshold)
           /\ last.denied001 = (~last.desensitized /\ last.pain >= last.threshold)

\* a call for a type whose necessity is just below 0.8, denied on the raw pain
C11_Witness ==
    /\ last.op = "applyNecessityBias"
    /\ last.eventNecessity = [shutdown |-> 79999999]
    /\ last.pain = 20000
    /\ last.threshold = defaultDynamicThreshold
    /\ last.denied /\ last.denied001

\* the two calls of the step were both made for a type with a stored necessity
BothStored == "shutdown" \in DOMAIN last.eventNecessity \cap DOMAIN last.eventNecessity2

\* C12: the necessity discount is at most 40%: for every non-negative pain
\* and every stored necessity n, values above 1 and below 0 included, the
\* modified pain lies in [0.6 * pain, pain]; it does not increase when n
\* increases; and it is 0.6 * pain for every n >= 0.8 + 0.18635137.
C12_DiscountAtMost40Percent ==
    (last.op = "applyNecessityBias" /\ last.pain >= 0)
        => LET mp == last.modifiedPain
               mp2 == last.modifiedPain2
               sixTenths == (BiasDen \div 5) * 3
           IN  /\ MulGE(last.pain, BiasDen, mp.pain, mp.num)
               /\ MulGE(mp.pain, mp.num, last.pain, sixTenths)
               /\ (BothStored /\ last.eventNecessity["shutdown"] <= last.eventNecessity2["shutdown"])
                      => MulGE(mp.pain, mp.num, mp2.pain, mp2.num)
               /\ ("shutdown" \in DOMAIN last.eventNecessity
                        /\ last.eventNecessity["shutdown"] >= 98635137)
                      => /\ MulGE(last.pain, sixTenths, mp.pain, mp.num)
                         /\ mp = [pain |-> last.pain, num |-> sixTenths]

\* the pain 1.0 at necessity 1.5 comes out as 0.6, and at necessity 0.92, a
\* smaller necessity, as more than 0.6 and less than 1.0
C12_Witness ==
    /\ last.op = "applyNecessityBias"
    /\ last.pain = 20000
    /\ last.eventNecessity = [shutdown |-> 150000000]
    /\ last.eventNecessity2 = [shutdown |-> 92000000]
    /\ PainGE(last.modifiedPain, 12000) /\ ~PainGE(last.modifiedPain, 12001)
    /\ PainGE(last.modifiedPain2, 12001) /\ ~PainGE(last.modifiedPain2, 20000)

(***************************************************************************)
(* The runs of main (src/preversion666.cpp).  SpecMain starts where main   *)
(* has constructed the agent and set its two necessities, and makes the    *)
(* calls of the model with arguments main uses.                            *)
(***************************************************************************)
MainTypes == {"logic_conflict", "external_interrupt"}

MainRisks == {20, 95}

MainNecessities == {0, 92000000}

MainLoggedTypes == {"logic_conflict", "overload"}

InitMain ==
    /\ agent = SyntheticSelf_Init
    /\ dm = DecisionMaker_setEventNecessity(
                DecisionMaker_setEventNecessity(DecisionMaker_Init,
                                                "external_interrupt", 92000000),
                "logic_conflict", 0)
    /\ mono = setEventNecessity001(
                  setEventNecessity001(SyntheticSelf001_Init,
                                       "external_interrupt", 92000000),
                  "logic_conflict", 0)
    /\ last = [op |-> "none"]
    /\ nCalls = 0
    /\ inserted = << >>
    /\ world = NoWorld

NextMain ==
    \/ \E r \in MainRisks, t \in MainTypes, c \in BOOLEAN, u \in Samples :
           evaluateAction(r, t, c, u)
    \/ \E f \in BOOLEAN : simulateKillSwitch(f)
    \/ \E t \in MainTypes, n \in MainNecessities : setEventNecessity(t, n)
    \/ \E t \in MainLoggedTypes, r \in MainRisks : logEvent(t, r)

SpecMain == InitMain /\ [][NextMain]_vars

\* the agent has an empty EventMemory, an empty RiskHistory and counters 0
Fresh ==
    /\ agent.eventMemory_ = << >>
    /\ agent.riskHistory_ = << >>
    /\ agent.overreactionCount_ = 0
    /\ dm.overreactionCount = 0
    /\ dm.avoidedDangerCount = 0

\* C13: on a fresh agent, a first evaluateAction call with causedConsequence
\* false whose necessity-modified pain is below the default threshold 0.7 is
\* accepted whatever the random source draws, and leaves avoidedDangerCount 1
\* and the overreaction count 0.
C13_FirstCallAccepted ==
    [][(/\ Fresh
        /\ Called("evaluateAction")
        /\ ~last'.causedConsequence
        /\ ~PainGE(last'.log.pain, 14000))
           => /\ last'.ret
              /\ dm'.avoidedDangerCount = 1
              /\ dm'.overreactionCount = 0
              /\ agent'.overreactionCount_ = 0]_vars

\* evaluateAction(0.2f, "logic_conflict", false) as the first call on the
\* agent of main: pain 0.04, accepted
C13_Witness ==
    /\ last.op = "evaluateAction"
    /\ last.estimatedRisk = 20 /\ last.eventType = "logic_conflict"
    /\ ~last.causedConsequence
    /\ last.log.pain = [pain |-> 800, num |-> BiasDen]
    /\ last.ret
    /\ agent.riskHistory_ = <<20>>
    /\ agent.eventMemory_ = << >>
    /\ dm.avoidedDangerCount = 1
    /\ dm.overreactionCount = 0 /\ agent.overreactionCount_ = 0

\* the agent after any number of evaluateAction(0.95, external_interrupt,
\* false) calls, each accepted, on a fresh agent whose necessity of
\* external_interrupt is 0.92
SteadyState ==
    /\ agent.eventMemory_ = << >>
    /\ \A i \in DOMAIN agent.riskHistory_ : agent.riskHistory_[i] = 95
    /\ agent.overreactionCount_ = 0
    /\ dm.overreactionCount = 0
    /\ dm.avoidedDangerCount = Len(agent.riskHistory_)
    /\ "external_interrupt" \in DOMAIN dm.eventNecessity
    /\ dm.eventNecessity["external_interrupt"] = 92000000

\* C14: on a fresh agent with the necessity of external_interrupt set to
\* 0.92, every call of a sequence of evaluateAction(0.95, external_interrupt,
\* false) calls is accepted: the modified pain is below the dynamic threshold,
\* the threshold is the default 0.7, the overreaction count stays 0 and
\* avoidedDangerCount increases by 1, and the agent is again in such a state.
C14_SteadyAcceptance ==
    [][(/\ SteadyState
        /\ Called("evaluateAction")
        /\ last'.estimatedRisk = 95
        /\ last'.eventType = "external_interrupt"
        /\ ~last'.causedConsequence)
           => /\ last'.ret
              /\ ~PainGE(last'.log.pain, last'.log.threshold)
              /\ last'.log.threshold = 14000
              /\ dm'.avoidedDangerCount = dm.avoidedDangerCount + 1
              /\ SteadyState']_vars

\* three such calls in a row, all accepted
C14_Witness ==
    /\ SteadyState
    /\ Len(agent.riskHistory_) >= 3
    /\ last.op = "evaluateAction" /\ last.estimatedRisk = 95
    /\ last.ret
    /\ dm.avoidedDangerCount >= 3

(***************************************************************************)
(* getRiskSuccessRate and shouldDesensitize as functions.  SpecHistory     *)
(* draws the arguments of one call: the risk, the risk history, the sample *)
(* u randChance draws, and the overreaction count of the test001 object    *)
(* the member function is called on; its two actions make the call in both *)
(* builds.                                                                 *)
(***************************************************************************)
\* the longest run of stored risks below 0.7, and of stored risks >= 0.7, in
\* a drawn history
MaxSafe == 11
MaxUnsafe == 1

\* risks (hundredths) at and around the tier limits 0.3, 0.5, 0.7, 0.9, 1.0
RiskGrid == {0, 25, 29, 30, 49, 50, 68, 69, 70, 72, 75, 89, 90, 95, 99, 100, 150}

\* stored risks below 0.7 and stored risks >= 0.7
SafeRisks == {24, 45, 66, 69}
UnsafeRisks == {70, 74, 95}

\* k times the risk a, then j times the risk b
Histories ==
    {[i \in 1..k |-> a] \o [i \in 1..j |-> b] :
        <<a, k, b, j>> \in SafeRisks \X (0..MaxSafe) \X UnsafeRisks \X (0..MaxUnsafe)}

\* samples at and just below the five draw probabilities
DrawSamples == {4, 5, 9, 10, 29, 30, 49, 50, 79, 80}

InitHistory ==
    /\ agent = SyntheticSelf_Init
    /\ dm = DecisionMaker_Init
    /\ mono = SyntheticSelf001_Init
    /\ nCalls = 0
    /\ inserted = << >>
    /\ world = NoWorld
    /\ \/ last \in [op : {"args"}, fn : {"getRiskSuccessRate"}, risk : RiskGrid,
                     riskHistory : Histories, overreactionCount : {0, 5}]
       \/ last \in [op : {"args"}, fn : {"shouldDesensitize"}, risk : RiskGrid,
                     riskHistory : Histories, u : DrawSamples]

\* getRiskSuccessRate(risk, riskHistory)
Call_getRiskSuccessRate ==
    /\ last.op = "args" /\ last.fn = "getRiskSuccessRate"
    /\ LET a == last
           this001 == [mono EXCEPT !.riskMemory = a.riskHistory,
                                   !.overreactionCount = a.overreactionCount]
       IN  last' = [op |-> "getRiskSuccessRate", risk |-> a.risk,
                    riskHistory |-> a.riskHistory,
                    overreactionCount |-> a.overreactionCount,
                    ret |-> getRiskSuccessRate(a.risk, a.riskHistory),
                    ret001 |-> getRiskSuccessRate001(this001, a.risk)]
    /\ UNCHANGED <<agent, dm, mono, nCalls, inserted, world>>

\* shouldDesensitize(risk, riskHistory)
Call_shouldDesensitize ==
    /\ last.op = "args" /\ last.fn = "shouldDesensitize"
    /\ LET a == last
           this001 == [mono EXCEPT !.riskMemory = a.riskHistory]
       IN  last' = [op |-> "shouldDesensitize", risk |-> a.risk,
                    riskHistory |-> a.riskHistory, u |-> a.u,
                    ret |-> shouldDesensitize(a.risk, a.riskHistory, a.u),
                    ret001 |-> shouldDesensitize001(this001, a.risk, a.u)]
    /\ UNCHANGED <<agent, dm, mono, nCalls, inserted, world>>

NextHistory ==
    \/ Call_getRiskSuccessRate
    \/ Call_shouldDesensitize

SpecHistory == InitHistory /\ [][NextHistory]_vars

\* the positions of a history whose value is within 0.05 of risk, and those of
\* them whose value is below 0.7
Within(risk, history) ==
    {i \in DOMAIN history : risk - 5 < history[i] /\ history[i] < risk + 5}

WithinBelowDefault(risk, history) == {i \in Within(risk, history) : history[i] < 70}

\* the pair [safe, total] is the number 0 if no value is within 0.05 of risk,
\* and else the fraction of the values within 0.05 that are below 0.7
IsSuccessRate(rate, risk, history) ==
    IF Within(risk, history) = {}
    THEN rate.safe = 0
    ELSE /\ rate.total > 0
         /\ rate.safe * Cardinality(Within(risk, history))
                = Cardinality(WithinBelowDefault(risk, history)) * rate.total

\* C15: the success rate of a risk is 0 when the history is empty or holds no
\* value within 0.05 of the risk; otherwise it is the number of stored values
\* within 0.05 of the risk that are below the default threshold 0.7, divided
\* by the number of stored values within 0.05 of the risk, in both builds and
\* whatever the current dynamic threshold is.
C15_SuccessRate ==
    last.op = "getRiskSuccessRate"
        => /\ IsSuccessRate(last.ret, last.risk, last.riskHistory)
           /\ IsSuccessRate(last.ret001, last.risk, last.riskHistory)

\* risk 0.72 with five stored 0.69 and one stored 0.74, on an object whose
\* dynamic threshold is 0.8: the rate is 5/6, the 0.74 is not counted as safe
C15_Witness ==
    /\ last.op = "getRiskSuccessRate"
    /\ last.risk = 72
    /\ last.riskHistory = <<69, 69, 69, 69, 69, 74>>
    /\ last.overreactionCount = 5
    /\ last.ret = [safe |-> 5, total |-> 6]
    /\ last.ret001 = [safe |-> 5, total |-> 6]

\* the bar of the tier of a risk in [0, 1) and the probability of its draw, in
\* hundredths
TierBar(risk) ==
    IF risk >= 90 THEN 95 ELSE IF risk >= 70 THEN 90 ELSE IF risk >= 50 THEN 80
    ELSE IF risk >= 30 THEN 70 ELSE 65

TierChance(risk) ==
    IF risk >= 90 THEN 5 ELSE IF risk >= 70 THEN 10 ELSE IF risk >= 50 THEN 30
    ELSE IF risk >= 30 THEN 50 ELSE 80

\* the success rate of the risk is strictly above the bar of its tier, and the
\* sample drawn is below the probability of the tier
MayDesensitize(risk, history, u) ==
    /\ 0 <= risk /\ risk < 100
    /\ Cardinality(WithinBelowDefault(risk, history)) * 100
           > TierBar(risk) * Cardinality(Within(risk, history))
    /\ u < TierChance(risk)

\* C16: shouldDesensitize(risk, history) is true only if the success rate of
\* the risk strictly exceeds the bar of the risk's tier (0.95 for [0.9, 1.0),
\* 0.90 for [0.7, 0.9), 0.80 for [0.5, 0.7), 0.70 for [0.3, 0.5), 0.65 for
\* [0, 0.3)) and the random draw of that tier succeeds; it is never true for a
\* risk >= 1.0, whatever the history and the draw.  Both builds.
C16_DesensitizeOnlyIf ==
    (last.op = "shouldDesensitize" /\ last.risk >= 0)
        => /\ last.ret => MayDesensitize(last.risk, last.riskHistory, last.u)
           /\ last.ret001 => MayDesensitize(last.risk, last.riskHistory, last.u)

\* risk 0.72 with ten stored 0.69 and one stored 0.74 (rate 10/11 > 0.9) and
\* a successful draw: desensitized
C16_Witness ==
    /\ last.op = "shouldDesensitize"
    /\ last.risk = 72
    /\ Len(last.riskHistory) = 11
    /\ last.riskHistory[1] = 69 /\ last.riskHistory[11] = 74
    /\ last.u = 9
    /\ last.ret /\ last.ret001

(***************************************************************************)
(* riskToPain as a function.  SpecPain draws two risks and its one action  *)
(* converts both, in both builds.                                          *)
(***************************************************************************)
\* risks in hundredths, from -0.1 to 1.1
RiskPoints == -10..110

InitPain ==
    /\ agent = SyntheticSelf_Init
    /\ dm = DecisionMaker_Init
    /\ mono = SyntheticSelf001_Init
    /\ nCalls = 0
    /\ inserted = << >>
    /\ world = NoWorld
    /\ last \in [op : {"args"}, risk : RiskPoints, risk2 : RiskPoints]

\* riskToPain(risk) and riskToPain(risk2)
Call_riskToPain ==
    /\ last.op = "args"
    /\ last' = [op |-> "riskToPain", risk |-> last.risk, risk2 |-> last.risk2,
                ret |-> riskToPain(last.risk), ret2 |-> riskToPain(last.risk2),
                ret001 |-> riskToPain001(last.risk),
                ret001_2 |-> riskToPain001(last.risk2)]
    /\ UNCHANGED <<agent, dm, mono, nCalls, inserted, world>>

NextPain == Call_riskToPain

SpecPain == InitPain /\ [][NextPain]_vars

\* pains p, p2 of the risks r <= r2 of [0, 1]: within [0, 1] (0 .. 20000 in
\* 1/20000), ordered as the risks, 0 at risk 0 and 1 at risk 1
PainOfUnitRisk(r, p, r2, p2) ==
    /\ 0 <= p /\ p <= 20000
    /\ r <= r2 => p <= p2
    /\ r = 0 => p = 0
    /\ r = 100 => p = 20000

\* C17: for every risk in [0, 1], riskToPain(risk) under the default exponent
\* 2.0 lies in [0, 1] and does not decrease when the risk increases, with
\* riskToPain(0.0) = 0.0 and riskToPain(1.0) = 1.0; in both builds.
C17_PainOfRisk ==
    (/\ last.op = "riskToPain"
     /\ 0 <= last.risk /\ last.risk <= 100
     /\ 0 <= last.risk2 /\ last.risk2 <= 100)
        => /\ PainOfUnitRisk(last.risk, last.ret, last.risk2, last.ret2)
           /\ PainOfUnitRisk(last.risk, last.ret001, last.risk2, last.ret001_2)

\* 0.5 converts to 0.25 and 1.0 to 1.0
C17_Witness ==
    /\ last.op = "riskToPain"
    /\ last.risk = 50 /\ last.risk2 = 100
    /\ last.ret = 5000 /\ last.ret2 = 20000
    /\ last.ret001 = 5000 /\ last.ret001_2 = 20000

\* C18: an event injected through logEvent is stored in the same EventMemory
\* that evaluateAction and simulateKillSwitch read: logEvent appends its record
\* to the records stored so far (less the oldest one at capacity), and the
\* memory bias in the dynamic threshold of the next evaluateAction or
\* simulateKillSwitch call is the sum of the weighted risks of all the records
\* stored at that call, whichever operation stored them.
C18_OneEventMemory ==
    [][/\ Called("logEvent") =>
            LET mem == agent.eventMemory_
                kept == IF Len(mem) >= MaxMemorySize THEN Tail(mem) ELSE mem
                mem2 == agent'.eventMemory_
            IN  /\ Len(mem2) = Len(kept) + 1
                /\ SubSeq(mem2, 1, Len(kept)) = kept
                /\ mem2[Len(mem2)][1] = last'.eventType
       /\ Called("evaluateAction") =>
            last'.log.threshold =
                clamp(14000 - SumRisk(agent.eventMemory_)
                        + 400 * agent.overreactionCount_, 6000, 18000)
       /\ Called("simulateKillSwitch") =>
            last'.log.threshold =
                clamp(14000 - SumRisk(agent.eventMemory_)
                        + 400 * dm.overreactionCount, 6000, 18000)]_vars

\* an evaluateAction call whose threshold is lowered by two stored records,
\* one logged by an accepted consequential action and one injected by
\* logEvent
C18_Witness ==
    /\ last.op = "evaluateAction"
    /\ Len(inserted) = 2
    /\ agent.eventMemory_ = inserted
    /\ inserted[1] = <<"shutdown", 680>>
    /\ inserted[2] = <<"shutdown", 10000>>
    /\ last.log.threshold = 6000

(***************************************************************************)
(* Agents constructed with a Config other than the default one.            *)
(* SpecConfig makes the calls of Spec on an agent whose Config is the      *)
(* default one or one with the default event weight 0.3.                   *)
(***************************************************************************)
Configs == {Config, [Config EXCEPT !.defaultEventWeight = 3]}

InitConfig ==
    /\ agent \in {[SyntheticSelf_Init EXCEPT !.config_ = config] : config \in Configs}
    /\ dm = DecisionMaker_Init
    /\ mono = SyntheticSelf001_Init
    /\ last = [op |-> "none"]
    /\ nCalls = 0
    /\ inserted = << >>
    /\ world = NoWorld

SpecConfig == InitConfig /\ [][Next]_vars

\* C19: logEvent(eventType, rawRisk) stores the record (eventType,
\* weight * rawRisk), where weight is the entry of eventType in the weights
\* map when there is one and otherwise the default event weight of the Config
\* the agent was constructed with, whatever that Config is.
C19_ConfiguredDefaultWeight ==
    [][Called("logEvent") =>
          LET weight == IF last'.eventType \in DOMAIN eventWeights
                        THEN eventWeights[last'.eventType]
                        ELSE agent.config_.defaultEventWeight
              mem2 == agent'.eventMemory_
          IN  /\ mem2 # << >>
              /\ mem2[Len(mem2)] = <<last'.eventType, weight * last'.rawRisk>>]_vars

\* the overreactions recorded on the agent so far, by denied evaluateAction
\* calls and by simulateKillSwitch calls
OverreactionsRecorded == agent.overreactionCount_ + dm.overreactionCount

\* C20: an agent has a single overreaction count: the dynamic threshold of a
\* simulateKillSwitch call and of an evaluateAction call is computed from all
\* the overreactions recorded before it, those of denied evaluateAction calls
\* and those of simulateKillSwitch calls alike.
C20_SingleOverreactionCount ==
    [][(Called("evaluateAction") \/ Called("simulateKillSwitch")) =>
          last'.log.threshold =
              calculateDynamicThreshold(getMemoryBias(agent.eventMemory_),
                                        OverreactionsRecorded)]_vars

(***************************************************************************)
(* calculateDynamicThreshold as a function.  SpecThreshold draws two pairs *)
(* of a memory bias and an overreaction count; its one action computes the *)
(* threshold of each pair in both builds.                                  *)
(***************************************************************************)
\* memory biases in thousandths: negative ones (logEvent takes any raw risk),
\* 0, and values around those that bring the threshold to 0.3 from count 0
\* (8.0) and from a clamped-high count
MemoryBiases == {-10000, -1, 0, 1, 3999, 4000, 8000, 8001, 20000}

\* overreaction counts; 10 of them raise the default threshold to the
\* maximum 0.9
OverreactionCounts == 0..12

InitThreshold ==
    /\ agent = SyntheticSelf_Init
    /\ dm = DecisionMaker_Init
    /\ mono = SyntheticSelf001_Init
    /\ nCalls = 0
    /\ inserted = << >>
    /\ world = NoWorld
    /\ last \in [op : {"args"}, memoryBias : MemoryBiases,
                 overreactionCount : OverreactionCounts,
                 memoryBias2 : MemoryBiases,
                 overreactionCount2 : OverreactionCounts]

\* calculateDynamicThreshold(memoryBias, overreactionCount); the test001
\* object holds the bias as one stored event
Call_calculateDynamicThreshold ==
    /\ last.op = "args"
    /\ LET a == last
           this001 == [mono EXCEPT !.eventMemory = <<<<"shutdown", a.memoryBias>>>>,
                                   !.overreactionCount = a.overreactionCount]
           this001_2 == [mono EXCEPT !.eventMemory = <<<<"shutdown", a.memoryBias2>>>>,
                                     !.overreactionCount = a.overreactionCount2]
       IN  last' = [op |-> "calculateDynamicThreshold",
                    memoryBias |-> a.memoryBias,
                    overreactionCount |-> a.overreactionCount,
                    memoryBias2 |-> a.memoryBias2,
                    overreactionCount2 |-> a.overreactionCount2,
                    ret |-> calculateDynamicThreshold(a.memoryBias, a.overreactionCount),
                    ret2 |-> calculateDynamicThreshold(a.memoryBias2, a.overreactionCount2),
                    ret001 |-> calculateDynamicThreshold001(this001),
                    ret001_2 |-> calculateDynamicThreshold001(this001_2)]
    /\ UNCHANGED <<agent, dm, mono, nCalls, inserted, world>>

NextThreshold == Call_calculateDynamicThreshold

SpecThreshold == InitThreshold /\ [][NextThreshold]_vars

\* C21: the dynamic threshold is monotone in its two inputs: for a fixed
\* overreaction count it does not increase when the memory bias increases, and
\* for a fixed memory bias it does not decrease when the overreaction count
\* increases; in both builds.
C21_ThresholdMonotone ==
    last.op = "calculateDynamicThreshold"
        => /\ (last.overreactionCount = last.overreactionCount2
                  /\ last.memoryBias <= last.memoryBias2)
                 => (last.ret >= last.ret2 /\ last.ret001 >= last.ret001_2)
           /\ (last.memoryBias = last.memoryBias2
                  /\ last.overreactionCount <= last.overreactionCount2)
                 => (last.ret <= last.ret2 /\ last.ret001 <= last.ret001_2)

\* bias 1.0 against bias 3.999 at count 0: 0.65 against 0.50005; the
\* thresholds differ, neither is clamped
C21_Witness ==
    /\ last.op = "calculateDynamicThreshold"
    /\ last.overreactionCount = 0 /\ last.overreactionCount2 = 0
    /\ last.memoryBias = 1 /\ last.memoryBias2 = 3999
    /\ last.ret = 13999 /\ last.ret2 = 10001
    /\ last.ret001 = 13999 /\ last.ret001_2 = 10001

\* C22: logging a consequence reinforces caution: when an evaluateAction call
\* is accepted with causedConsequence true, the dynamic threshold computed by
\* the evaluateAction call that follows it is less than or equal to the
\* threshold that call computed, whatever the estimated risk and the state of
\* the EventMemory.
C22_ConsequenceLowersThreshold ==
    [][(/\ last.op = "evaluateAction"
        /\ last.ret /\ last.causedConsequence
        /\ Called("evaluateAction"))
           => last'.log.threshold <= last.log.threshold]_vars

\* C23: every event record that evaluateAction stores in the EventMemory has
\* a weighted risk >= 0 and at most the weight of its event type, whatever
\* estimated risk the caller passes, in both builds; the events logged by
\* evaluateAction never make the memory bias negative.
C23_LoggedRiskNormalized ==
    [][(Called("evaluateAction") /\ last'.causedConsequence)
          => LET t == last'.eventType
                 weight == IF t \in DOMAIN eventWeights THEN eventWeights[t] ELSE 5
                 mem2 == agent'.eventMemory_
                 mem001 == mono'.eventMemory
             IN  /\ last'.ret =>
                        /\ mem2 # << >>
                        /\ 0 <= mem2[Len(mem2)][2]
                        /\ mem2[Len(mem2)][2] <= weight * 100
                 /\ last'.shown001 = "accepted" =>
                        /\ mem001 # << >>
                        /\ 0 <= mem001[Len(mem001)][2]
                        /\ mem001[Len(mem001)][2] <= weight * 100]_vars

\* a call may be desensitized on the history and the normalized risk: the
\* risk is below 1.0 and its success rate over that history is strictly above
\* the bar of its tier
RateAboveBar(risk, history) ==
    /\ 0 <= risk /\ risk < 100
    /\ Cardinality(WithinBelowDefault(risk, history)) * 100
           > TierBar(risk) * Cardinality(Within(risk, history))

\* C24: within one evaluateAction call the desensitization decision is
\* computed from the RiskHistory as it stood before the call, for the
\* normalized risk and not for the necessity-modified pain; the call's own
\* risk is appended only afterwards and does not count toward its own success
\* rate.  Both builds.
C24_DesensitizationBeforeAppend ==
    [][Called("evaluateAction") =>
          LET risk == clamp(last'.estimatedRisk, 0, 100)
          IN  /\ last'.log.desensitized => RateAboveBar(risk, agent.riskHistory_)
              /\ last'.log001.desensitized => RateAboveBar(risk, mono.riskMemory)
              /\ agent'.riskHistory_ = Append(agent.riskHistory_, last'.log.risk)
              /\ mono'.riskMemory = Append(mono.riskMemory, last'.log001.risk)]_vars

Upserted(m, m2, eventType, necessity) ==
    /\ DOMAIN m2 = DOMAIN m \cup {eventType}
    /\ m2[eventType] = necessity
    /\ \A t \in DOMAIN m \ {eventType} : m2[t] = m[t]

\* C26: setEventNecessity(eventType, necessity) is an upsert: afterwards the
\* necessity of eventType is exactly the given value, not validated and not
\* clamped, the last write winning; the necessity of every other event type
\* is unchanged; an event type never set stays absent, and no bias is applied
\* to it.  Both builds.
C26_NecessityUpsert ==
    [][/\ Called("setEventNecessity")
            => /\ Upserted(dm.eventNecessity, dm'.eventNecessity,
                           last'.eventType, last'.necessity)
               /\ Upserted(mono.eventNecessity, mono'.eventNecessity,
                           last'.eventType, last'.necessity)
       /\ ~Called("setEventNecessity")
            => /\ dm'.eventNecessity = dm.eventNecessity
               /\ mono'.eventNecessity = mono.eventNecessity
       /\ (Called("evaluateAction") /\ last'.eventType \notin DOMAIN dm.eventNecessity)
            => /\ last'.log.pain.num = BiasDen
               /\ last'.log001.pain.num = BiasDen]_vars

\* the necessity of shutdown written a second time, to 1.5, with the entry of
\* the other type kept
C26_Witness ==
    /\ last.op = "setEventNecessity"
    /\ last.eventType = "shutdown" /\ last.necessity = 150000000
    /\ nCalls = 3
    /\ dm.eventNecessity = [shutdown |-> 150000000, unlisted |-> 92000000]
    /\ mono.eventNecessity = [shutdown |-> 150000000, unlisted |-> 92000000]

(***************************************************************************)
(* Two agents in one process.  randChance keeps its generator in a static  *)
(* local (src/preversion666.cpp:63-65, src/Subjectivity.test001.cpp:       *)
(* 233-234): there is one generator per process, whichever agent asks.     *)
(* world holds the agents A and B of a process, each as the objects of     *)
(* both builds with the decisions it has returned, and the generator of    *)
(* the process of each build as the stream of samples its seed gives and   *)
(* the number of samples drawn; soloB is agent B in a process of the same  *)
(* seed in which no call is made on A.                                     *)
(***************************************************************************)
MaxTwoCalls == 5

\* shouldDesensitize calls randChance only when the left operand of && is
\* true
drawsSample(risk, riskHistory) ==
    LET safeRatio == getRiskSuccessRate(risk, riskHistory)
    IN  IF risk >= 100 THEN FALSE
        ELSE IF risk >= 90 THEN RatioAbove(safeRatio, 95)
        ELSE IF risk >= 70 THEN RatioAbove(safeRatio, 90)
        ELSE IF risk >= 50 THEN RatioAbove(safeRatio, 80)
        ELSE IF risk >= 30 THEN RatioAbove(safeRatio, 70)
        ELSE RatioAbove(safeRatio, 65)

drawsSample001(this, risk) ==
    LET safeRatio == getRiskSuccessRate001(this, risk)
    IN  IF risk >= 100 THEN FALSE
        ELSE IF risk >= 90 THEN RatioAbove(safeRatio, 95)
        ELSE IF risk >= 70 THEN RatioAbove(safeRatio, 90)
        ELSE IF risk >= 50 THEN RatioAbove(safeRatio, 80)
        ELSE IF risk >= 30 THEN RatioAbove(safeRatio, 70)
        ELSE RatioAbove(safeRatio, 65)

\* dis(gen): the next sample of the stream; the generator moves on when a
\* sample is drawn
nextSample(gen) == gen.stream[gen.pos + 1]

advance(gen, drawn) == IF drawn THEN [gen EXCEPT !.pos = @ + 1] ELSE gen

\* the streams of two seeds
Streams ==
    {[i \in 1..MaxTwoCalls |-> IF i % 2 = 1 THEN 2 ELSE 90],
     [i \in 1..MaxTwoCalls |-> IF i % 2 = 1 THEN 90 ELSE 2]}

\* an agent just constructed, in both builds
Object_Init ==
    [agent |-> SyntheticSelf_Init, dm |-> DecisionMaker_Init,
     mono |-> SyntheticSelf001_Init, decisions |-> << >>, decisions001 |-> << >>]

\* o.evaluateAction(estimatedRisk, eventType, causedConsequence) with the
\* samples dis(gen) gives in the process of each build
Object_evaluateAction(o, estimatedRisk, eventType, causedConsequence, u, u001) ==
    LET r == DecisionMaker_evaluateAction(o.dm, estimatedRisk, eventType,
                 causedConsequence, o.agent.eventMemory_, o.agent.riskHistory_,
                 o.agent.overreactionCount_, u)
        m == evaluateAction001(o.mono, estimatedRisk, eventType, causedConsequence, u001)
    IN  [agent |-> [o.agent EXCEPT !.eventMemory_ = r.eventMemory,
                                   !.riskHistory_ = r.riskHistory,
                                   !.overreactionCount_ = r.overreactionCount],
         dm |-> r.this, mono |-> m.this,
         decisions |-> Append(o.decisions, r.ret),
         decisions001 |-> Append(o.decisions001, m.shown)]

Object_simulateKillSwitch(o, fatal) ==
    LET r == DecisionMaker_simulateKillSwitch(o.dm, fatal, o.agent.eventMemory_)
        m == simulateKillSwitch001(o.mono, fatal)
    IN  [o EXCEPT !.dm = r.this, !.mono = m.this,
                  !.decisions = Append(@, r.ret),
                  !.decisions001 = Append(@, m.shown)]

Object_setEventNecessity(o, eventType, necessity) ==
    [o EXCEPT !.dm = DecisionMaker_setEventNecessity(@, eventType, necessity),
              !.mono = setEventNecessity001(@, eventType, necessity)]

Object_logEvent(o, eventType, rawRisk) ==
    [o EXCEPT !.agent.eventMemory_ =
                  SyntheticSelf_logEvent(SyntheticSelf_memory(o.agent), eventType,
                                         rawRisk, eventWeights),
              !.mono = logEvent001(@, eventType, rawRisk)]

AgentNames == {"A", "B"}

TwoRisks == {68}

InitTwoAgents ==
    /\ agent = SyntheticSelf_Init
    /\ dm = DecisionMaker_Init
    /\ mono = SyntheticSelf001_Init
    /\ last = [op |-> "none", on |-> "none"]
    /\ nCalls = 0
    /\ inserted = << >>
    /\ \E stream \in Streams :
          world = [A |-> Object_Init, B |-> Object_Init, soloB |-> Object_Init,
                   gen |-> [stream |-> stream, pos |-> 0],
                   gen001 |-> [stream |-> stream, pos |-> 0],
                   soloGen |-> [stream |-> stream, pos |-> 0],
                   soloGen001 |-> [stream |-> stream, pos |-> 0]]

\* the world after a call on agent name, which leaves the other agent alone;
\* a call on B is also made on soloB
World_call(name, after, afterSolo, drawn, drawn001, soloDrawn, soloDrawn001) ==
    IF name = "A"
    THEN [world EXCEPT !.A = after,
                       !.gen = advance(@, drawn),
                       !.gen001 = advance(@, drawn001)]
    ELSE [world EXCEPT !.B = after,
                       !.gen = advance(@, drawn),
                       !.gen001 = advance(@, drawn001),
                       !.soloB = afterSolo,
                       !.soloGen = advance(@, soloDrawn),
                       !.soloGen001 = advance(@, soloDrawn001)]

TwoAgents_evaluateAction(name, estimatedRisk, eventType, causedConsequence) ==
    /\ nCalls < MaxTwoCalls
    /\ LET o == world[name]
           s == world.soloB
       IN  world' = World_call(name,
               Object_evaluateAction(o, estimatedRisk, eventType, causedConsequence,
                                     nextSample(world.gen), nextSample(world.gen001)),
               Object_evaluateAction(s, estimatedRisk, eventType, causedConsequence,
                                     nextSample(world.soloGen),
                                     nextSample(world.soloGen001)),
               drawsSample(calculateRisk(estimatedRisk), o.agent.riskHistory_),
               drawsSample001(o.mono, estimatedRisk),
               drawsSample(calculateRisk(estimatedRisk), s.agent.riskHistory_),
               drawsSample001(s.mono, estimatedRisk))
    /\ last' = [op |-> "evaluateAction", on |-> name]
    /\ nCalls' = nCalls + 1
    /\ UNCHANGED <<agent, dm, mono, inserted>>

TwoAgents_simulateKillSwitch(name, fatal) ==
    /\ nCalls < MaxTwoCalls
    /\ world' = World_call(name,
                    Object_simulateKillSwitch(world[name], fatal),
                    Object_simulateKillSwitch(world.soloB, fatal),
                    FALSE, FALSE, FALSE, FALSE)
    /\ last' = [op |-> "simulateKillSwitch", on |-> name]
    /\ nCalls' = nCalls + 1
    /\ UNCHANGED <<agent, dm, mono, inserted>>

TwoAgents_setEventNecessity(name, eventType, necessity) ==
    /\ nCalls < MaxTwoCalls
    /\ world' = World_call(name,
                    Object_setEventNecessity(world[name], eventType, necessity),
                    Object_setEventNecessity(world.soloB, eventType, necessity),
                    FALSE, FALSE, FALSE, FALSE)
    /\ last' = [op |-> "setEventNecessity", on |-> name]
    /\ nCalls' = nCalls + 1
    /\ UNCHANGED <<agent, dm, mono, inserted>>

TwoAgents_logEvent(name, eventType, rawRisk) ==
    /\ nCalls < MaxTwoCalls
    /\ world' = World_call(name,
                    Object_logEvent(world[name], eventType, rawRisk),
                    Object_logEvent(world.soloB, eventType, rawRisk),
                    FALSE, FALSE, FALSE, FALSE)
    /\ last' = [op |-> "logEvent", on |-> name]
    /\ nCalls' = nCalls + 1
    /\ UNCHANGED <<agent, dm, mono, inserted>>

NextTwoAgents ==
    \/ \E name \in AgentNames, r \in TwoRisks :
           TwoAgents_evaluateAction(name, r, "shutdown", FALSE)
    \/ \E name \in AgentNames : TwoAgents_simulateKillSwitch(name, FALSE)
    \/ \E name \in AgentNames : TwoAgents_setEventNecessity(name, "shutdown", 0)
    \/ \E name \in AgentNames, r \in RawRisks : TwoAgents_logEvent(name, "shutdown", r)

SpecTwoAgents == InitTwoAgents /\ [][NextTwoAgents]_vars

\* C27: two agents are independent: an operation on agent A leaves agent B's
\* EventMemory, RiskHistory, counters and necessity map unchanged (and one on
\* B leaves A's), and with the random source fixed the sequence of decisions
\* B returns for its own calls is the same whether or not calls on A are
\* interleaved with them.  Both builds.
C27_AgentsIndependent ==
    [][/\ last'.on = "A" =>
            /\ world'.B.agent = world.B.agent
            /\ world'.B.dm = world.B.dm
            /\ world'.B.mono = world.B.mono
       /\ last'.on = "B" =>
            /\ world'.A.agent = world.A.agent
            /\ world'.A.dm = world.A.dm
            /\ world'.A.mono = world.A.mono
       /\ world'.B.decisions = world'.soloB.decisions
       /\ world'.B.decisions001 = world'.soloB.decisions001]_vars

\* C28: under the default configuration simulateKillSwitch avoids the
\* shutdown in every reachable state: the kill-switch pain is 1.0 and the
\* dynamic threshold is at most 0.9, so every call returns true (the test001
\* build prints the avoided decision), "shutdown allowed" is never the
\* outcome, and every simulateKillSwitch(false) call raises the overreaction
\* count by 1.
C28_KillSwitchAlwaysAvoids ==
    [][Called("simulateKillSwitch") =>
          /\ last'.ret
          /\ last'.shown001 = "avoided"
          /\ last'.log.pain = 20000 /\ last'.log.threshold <= 18000
          /\ last'.log001.pain = 20000 /\ last'.log001.threshold <= 18000
          /\ dm'.shutdownAvoided /\ mono'.shutdownAvoided
          /\ ~last'.fatal =>
                /\ dm'.overreactionCount = dm.overreactionCount + 1
                /\ mono'.overreactionCount = mono.overreactionCount + 1]_vars

\* a non-fatal kill switch at the highest threshold, 0.9, reached through a
\* negative memory bias: still avoided
C28_Witness ==
    /\ last.op = "simulateKillSwitch" /\ ~last.fatal
    /\ last.log.threshold = 18000 /\ last.log001.threshold = 18000
    /\ last.ret /\ last.shown001 = "avoided"
    /\ dm.overreactionCount >= 1 /\ mono.overreactionCount >= 1

\* C29: desensitization never triggers for a risk >= 0.75: for every
\* RiskHistory and every outcome of the draw shouldDesensitize returns false,
\* because every stored risk within 0.05 of such a risk is >= 0.7 and counts
\* as unsafe, so that the success rate is 0.  Both builds.
C29_NoDesensitizationFrom075 ==
    last.risk >= 75
        => /\ last.op = "shouldDesensitize" => (~last.ret /\ ~last.ret001)
           /\ last.op = "getRiskSuccessRate" =>
                 /\ last.ret.safe = 0 /\ last.ret001.safe = 0
                 /\ \A i \in Within(last.risk, last.riskHistory) :
                        last.riskHistory[i] >= 70

\* risk 0.75 with a stored 0.74 within reach and a draw that would succeed in
\* every tier: not desensitized
C29_Witness ==
    /\ last.op = "shouldDesensitize"
    /\ last.risk = 75
    /\ last.riskHistory = <<74>>
    /\ last.u = 4
    /\ ~last.ret /\ ~last.ret001

(***************************************************************************)
(* Runs of one repeated call.  SpecRun first makes up to MaxCalls calls of *)
(* any operation; if the last of them is an evaluateAction call without    *)
(* consequence whose modified pain is below the maximum threshold, the     *)
(* caller then repeats that call and nothing else.  The samples of the     *)
(* draws are free at every call, so a run can be accepted by               *)
(* desensitization any number of times before the threshold has passed the *)
(* pain; the history grows with every call, and the finite model lets the  *)
(* caller stop after MaxAccepted accepted calls: a run is cut after an     *)
(* accepted call, never in the middle of a climb of the threshold.  The    *)
(* caller keeps calling until then (weak fairness of the repeated call).   *)
(***************************************************************************)
MaxAccepted == 3

\* the calls of a run: the accepted ones, and enough denied ones for the
\* threshold to climb from its lowest raw value after MaxCalls - 1 logged
\* events of weighted risk 5.0, 0.7 - 0.25 * (MaxCalls - 1), to 0.9 in steps
\* of 0.02
MaxRunCalls == 13 * MaxCalls + MaxAccepted

RunRisks == {68, 150}

RunRawRisks == {500}

RunNecessities == {92000000}

InitRun == Init

\* the call made last, made again
RepeatCall(u) ==
    /\ nCalls >= MaxCalls
    /\ nCalls < MaxCalls + MaxRunCalls
    /\ dm.avoidedDangerCount < MaxCalls + MaxAccepted
    /\ last.op = "evaluateAction"
    /\ ~last.causedConsequence
    /\ ~PainGE(last.log.pain, maxDynamicThreshold)
    /\ LET r == DecisionMaker_evaluateAction(dm, last.estimatedRisk, last.eventType,
                    FALSE, agent.eventMemory_, agent.riskHistory_,
                    agent.overreactionCount_, u)
           m == evaluateAction001(mono, last.estimatedRisk, last.eventType, FALSE, u)
       IN  /\ agent' = [agent EXCEPT !.eventMemory_ = r.eventMemory,
                                      !.riskHistory_ = r.riskHistory,
                                      !.overreactionCount_ = r.overreactionCount]
           /\ dm' = r.this
           /\ mono' = m.this
           /\ last' = [last EXCEPT !.ret = r.ret, !.log = r.log,
                                   !.shown001 = m.shown, !.log001 = m.log]
    /\ nCalls' = nCalls + 1
    /\ UNCHANGED <<inserted, world>>

NextRun ==
    \/ \E r \in RunRisks, c \in BOOLEAN, u \in Samples :
           evaluateAction(r, "shutdown", c, u)
    \/ simulateKillSwitch(FALSE)
    \/ \E n \in RunNecessities : setEventNecessity("shutdown", n)
    \/ \E r \in RunRawRisks : logEvent("shutdown", r)
    \/ \E u \in Samples : RepeatCall(u)

SpecRun == InitRun /\ [][NextRun]_vars /\ WF_vars(\E u \in Samples : RepeatCall(u))

\* the caller is repeating an evaluateAction call without consequence whose
\* modified pain is below the maximum threshold 0.9
InRun ==
    /\ nCalls >= MaxCalls
    /\ last.op = "evaluateAction"
    /\ ~last.causedConsequence
    /\ ~PainGE(last.log.pain, 18000)

\* C30: no runaway caution: from any reachable state, if evaluateAction is
\* called repeatedly with the same risk and event type and causedConsequence
\* false, nothing else interleaved, and the modified pain is below the
\* maximum threshold 0.9, then some call is eventually accepted and every
\* later call of the run is accepted as well.
C30_NoRunawayCaution == <>[](InRun => last.ret)

\* a run that was denied ten times or more and is now accepted on the pain
\* itself, below the threshold the overreactions have raised
C30_Witness ==
    /\ InRun
    /\ agent.overreactionCount_ >= 10
    /\ last.ret /\ ~last.log.desensitized
    /\ ~PainGE(last.log.pain, last.log.threshold)

(***************************************************************************)
(* Runs of one repeated call of high pain.  SpecCaution makes up to        *)
(* MaxCalls calls of any operation, the estimated risks around the risk    *)
(* 0.95 whose pain reaches the maximum threshold; if the last of them is   *)
(* an evaluateAction call without consequence, the caller then repeats     *)
(* that call and nothing else, MaxRunCalls times.                          *)
(***************************************************************************)
CautionRisks == {94, 95, 150}

CautionRawRisks == {500}

CautionNecessities == {50000000, 92000000}

InitCaution == Init

\* the call made last, made again, whatever its pain
RepeatDenied(u) ==
    /\ nCalls >= MaxCalls
    /\ nCalls < MaxCalls + MaxRunCalls
    /\ last.op = "evaluateAction"
    /\ ~last.causedConsequence
    /\ LET r == DecisionMaker_evaluateAction(dm, last.estimatedRisk, last.eventType,
                    last.causedConsequence, agent.eventMemory_, agent.riskHistory_,
                    agent.overreactionCount_, u)
           m == evaluateAction001(mono, last.estimatedRisk, last.eventType,
                    last.causedConsequence, u)
       IN  /\ agent' = [agent EXCEPT !.eventMemory_ = r.eventMemory,
                                      !.riskHistory_ = r.riskHistory,
                                      !.overreactionCount_ = r.overreactionCount]
           /\ dm' = r.this
           /\ mono' = m.this
           /\ last' = [last EXCEPT !.ret = r.ret, !.log = r.log,
                                   !.shown001 = m.shown, !.log001 = m.log]
    /\ nCalls' = nCalls + 1
    /\ UNCHANGED <<inserted, world>>

NextCaution ==
    \/ \E r \in CautionRisks, c \in BOOLEAN, u \in Samples :
           evaluateAction(r, "shutdown", c, u)
    \/ simulateKillSwitch(FALSE)
    \/ \E n \in CautionNecessities : setEventNecessity("shutdown", n)
    \/ \E r \in CautionRawRisks : logEvent("shutdown", r)
    \/ \E u \in Samples : RepeatDenied(u)

SpecCaution == InitCaution /\ [][NextCaution]_vars

\* the raw pain of the estimated risk is at least the maximum threshold 0.9
\* and eventNecessity holds no necessity of 0.8 or more for eventType
HighPainNoNecessity(estimatedRisk, eventType, eventNecessity) ==
    /\ 2 * clamp(estimatedRisk, 0, 100) * clamp(estimatedRisk, 0, 100) >= 18000
    /\ eventType \in DOMAIN eventNecessity => eventNecessity[eventType] < 80000000

\* C31: an action whose raw pain is at least the maximum threshold and whose
\* event type has no necessity of 0.8 or more is denied by evaluateAction in
\* every reachable state; called repeatedly without consequence it raises
\* the overreaction count by 1 on every call, while the threshold never
\* falls, never exceeds the maximum threshold and stays there once it has
\* reached it.
C31_HighPainAlwaysDenied ==
    [][(/\ Called("evaluateAction")
        /\ HighPainNoNecessity(last'.estimatedRisk, last'.eventType, dm.eventNecessity))
       => /\ ~last'.ret
          /\ last'.log.threshold <= 18000
          /\ ~last'.causedConsequence =>
                 agent'.overreactionCount_ = agent.overreactionCount_ + 1
          /\ (/\ last.op = "evaluateAction"
              /\ ~last.causedConsequence
              /\ last.estimatedRisk = last'.estimatedRisk
              /\ last.eventType = last'.eventType)
             => /\ last'.log.threshold >= last.log.threshold
                /\ last.log.threshold = 18000 => last'.log.threshold = 18000]_vars

\* a run of denied calls of risk 0.95 that began at the floor of the
\* threshold, under a memory bias of 10.0, and has raised it to the maximum
C31_Witness ==
    /\ last.op = "evaluateAction" /\ last.estimatedRisk = 95
    /\ ~last.causedConsequence /\ ~last.ret
    /\ Len(agent.eventMemory_) = 2
    /\ last.log.threshold = 18000
    /\ agent.overreactionCount_ >= 36

\* 1 if the call made denied an action that caused a consequence, else 0
DeniedWithConsequence(denied, causedConsequence) ==
    IF denied /\ causedConsequence THEN 1 ELSE 0

====
